---- MODULE Spec2Model ----
(***************************************************************************)
(* Ledger and credit-collection model of the banking service.              *)
(*                                                                         *)
(* Money is counted in integer minor units.  The database is PostgreSQL    *)
(* at READ COMMITTED: a statement run on the pool (r.db) commits by        *)
(* itself, a row locked by SELECT ... FOR UPDATE stays locked until the    *)
(* transaction that locked it commits or rolls back, and plain reads see   *)
(* the last committed value.                                               *)
(***************************************************************************)
EXTENDS Integers, Sequences, FiniteSets, TLC

\* ---------------------------------------------------------------- bounds
MaxAmount == 1          \* request amounts range over 0..MaxAmount
MaxCalls  == 2          \* service calls started in one behaviour
MaxSweeps == 2          \* runs of ProcessPayments in one behaviour
MaxNow    == 4          \* the clock stops after MaxNow ticks
MaxReads  == 1          \* calls of GetSchedule in one behaviour
MaxPrincipal == 60      \* credits of 1..MaxPrincipal currency units
MaxTerm   == 6          \* credit terms of 1..MaxTerm months
MaxIssues == 2          \* calls of CreditSvc.Create in one behaviour
MaxDeletes   == 2     \* calls of AccountSvc.Delete

\* the clock counts half days; a DATE column is a multiple of TicksPerDay
TicksPerDay == 2

\* ------------------------------------------------------------ seed data
Procs    == {"r1", "r2"}            \* concurrent request goroutines
Sweeper  == "sweep"                 \* the scheduler goroutine running ProcessPayments
AllProcs == Procs \cup {Sweeper}
Accounts == 1 .. 5
Users    == {"u1", "u2"}
NoAccount == 0                      \* a nil *int account reference
Cards    == {1, 2, 3}
Amounts  == 0 .. MaxAmount

\* rows of table cards
CardRow(c) ==
    CASE c = 1 -> [AccountID |-> 1, IsActive |-> TRUE]
      [] c = 2 -> [AccountID |-> 2, IsActive |-> FALSE]
      [] OTHER -> [AccountID |-> 5, IsActive |-> FALSE]

\* rows of table accounts (all columns but balance are fixed here)
AccountRow(a) ==
    CASE a = 1 -> [UserID |-> "u1", Currency |-> "RUB", IsActive |-> TRUE]
      [] a = 2 -> [UserID |-> "u2", Currency |-> "RUB", IsActive |-> TRUE]
      [] a = 3 -> [UserID |-> "u1", Currency |-> "USD", IsActive |-> TRUE]
      [] a = 4 -> [UserID |-> "u2", Currency |-> "USD", IsActive |-> TRUE]
      [] OTHER -> [UserID |-> "u1", Currency |-> "RUB", IsActive |-> FALSE]

InitBalance(a) ==
    CASE a = 1 -> 2
      [] a = 2 -> 1
      [] a = 3 -> 1
      [] OTHER -> 0

\* rows of table credits (status is state)
Credits == {1, 2}
CreditRow(c) ==
    IF c = 1 THEN [AccountID |-> 1, UserID |-> "u1"]
             ELSE [AccountID |-> 2, UserID |-> "u2"]

\* rows of table payment_schedules as CreateBatch inserted them
Insts == 1 .. 3
InitSchedule(i) ==
    [ID |-> i,
     CreditID |-> IF i = 3 THEN 2 ELSE 1,
     PaymentDate |-> IF i = 2 THEN TicksPerDay ELSE 0,
     PrincipalAmount |-> IF i = 3 THEN 18 ELSE 9,
     InterestAmount |-> IF i = 3 THEN 2 ELSE 1,
     TotalAmount |-> IF i = 3 THEN 20 ELSE 10,
     Status |-> "PENDING", IsOverdue |-> FALSE, PenaltyAmount |-> 0]

\* balances the collection runs start from
SweepBalance(a) ==
    CASE a = 1 -> 21
      [] a = 2 -> 12
      [] OTHER -> 0

\* the same with account 1 short of the first installment and its penalty
SweepBalanceShort(a) ==
    CASE a = 1 -> 10
      [] a = 2 -> 12
      [] OTHER -> 0

\* --------------------------------------------------------------- state
VARIABLES
    balance,    \* accounts.balance, committed value per account
    lock,       \* holder of the row lock of each account
    txns,       \* table transactions, in insertion order (id = position)
    notif,      \* notification goroutines started and not yet finished
    mailed,     \* finished notifications: <<transaction id, outcome>>
    pc,         \* position of each goroutine in its handler
    call,       \* arguments of the service call a goroutine runs
    cur,        \* UpdateBalance's local currentBalance
    res,        \* what the service call returned
    tid,        \* the local transactionID
    eff,        \* history: net balance change committed by the current call
    nrec,       \* history: records inserted by the current call
    expected,   \* history: initial balance + amounts of successful UpdateBalance calls
    ncalls,     \* service calls started so far
    schedules,  \* table payment_schedules
    creditStatus, \* credits.status
    now,        \* the clock
    queue,      \* ProcessPayments: pendingPayments not yet visited
    pay,        \* ProcessPayments: the in-memory payment of this iteration
    total,      \* ProcessPayments: totalAmount
    nsweeps,    \* runs of ProcessPayments started so far
    hist,       \* history per installment: debits committed, records
                \* inserted, writes of status PAID
    gs,         \* GetSchedule: position, credit, schedules read, updated
    probe,      \* UpdateScheduleStatus: argument, clock value, result
    gen,        \* GeneratePaymentSchedule: the request and the schedule
    issued,     \* rows stored for each credit issuance: account, credit,
                \* installments, balance of the account, records
    creating,   \* CreditSvc.Create: position, request, credit, error
    live,       \* the accounts of Accounts whose row is in table accounts
    active,     \* cards.is_active
    del         \* AccountSvc.Delete: position, account, user, balance read,
                \* error, row lock on an account of an issuance, calls

sweepVars == <<schedules, creditStatus, now, queue, pay, total, nsweeps>>

\* the schedule reader and the calculations on credits
calcVars == <<probe, gen>>
issueVars == <<issued, creating>>
deleteVars == <<live, active, del>>
creditVars == <<gs, calcVars, issueVars, deleteVars>>

vars == <<balance, lock, txns, notif, mailed, pc, call, cur, res, tid,
          eff, nrec, expected, ncalls, sweepVars, hist, creditVars>>

Free        == "free"
LeakedReq   == "leaked"        \* held by a transaction a request abandoned
LeakedSweep == "leaked_sweep"  \* held by a transaction the sweep abandoned
Leaked(p)   == IF p = Sweeper THEN LeakedSweep ELSE LeakedReq

NoPay == [ID |-> 0, CreditID |-> 1, PaymentDate |-> 0, TotalAmount |-> 0,
          Status |-> "PENDING", IsOverdue |-> FALSE, PenaltyAmount |-> 0]

\* account.ID of the iteration: the account of the payment's credit
SweepAccount == CreditRow(pay.CreditID).AccountID

NoCall == [kind |-> "none", user |-> "u1", src |-> NoAccount,
           dst |-> NoAccount, amount |-> 0, card |-> 0]
Ok     == [err |-> "", cause |-> ""]
Err(e, c) == [err |-> e, cause |-> c]
ZeroEff == [a \in Accounts |-> 0]

\* nothing stored for an issuance
NoRows == [account |-> FALSE, credit |-> FALSE, installments |-> 0,
           balance |-> 0, records |-> 0]

\* no CreditSvc.Create in progress
NoCreate == [pc |-> "idle", id |-> 0, req |-> [Amount |-> 0, TermMonths |-> 0],
             MonthlyPayment |-> 0, err |-> ""]

\* no schedule generated yet
NoGen == [req |-> [Amount |-> 0, TermMonths |-> 0],
          start |-> [month |-> 1, day |-> 1], schedule |-> << >>,
          done |-> FALSE]

\* no call of UpdateScheduleStatus to look at
NoProbe == [in |-> NoPay, t |-> 0, out |-> NoPay, done |-> FALSE]

\* no GetSchedule call in progress
NoRead == [pc |-> "idle", credit |-> 1, rows |-> << >>, updated |-> FALSE,
           calls |-> 0]

\* the goroutine of a request that runs AccountSvc.Delete
Deleter == "delete"

\* no AccountSvc.Delete in progress
NoDelete == [pc |-> "idle", id |-> 0, user |-> "u1", cur |-> 0, err |-> "",
             held |-> FALSE, calls |-> 0]

StartWith(bal) ==
    /\ balance  = [a \in Accounts |-> bal[a]]
    /\ lock     = [a \in Accounts |-> Free]
    /\ txns     = << >>
    /\ notif    = {}
    /\ mailed   = {}
    /\ pc       = [p \in AllProcs |-> "idle"]
    /\ call     = [p \in AllProcs |-> NoCall]
    /\ cur      = [p \in AllProcs |-> 0]
    /\ res      = [p \in AllProcs |-> Ok]
    /\ tid      = [p \in AllProcs |-> 0]
    /\ eff      = [p \in AllProcs |-> ZeroEff]
    /\ nrec     = [p \in AllProcs |-> 0]
    /\ expected = [a \in Accounts |-> bal[a]]
    /\ ncalls   = 0
    /\ schedules = [i \in Insts |-> InitSchedule(i)]
    /\ creditStatus = [c \in Credits |-> "ACTIVE"]
    /\ now      = 0
    /\ queue    = << >>
    /\ pay      = NoPay
    /\ total    = 0
    /\ nsweeps  = 0
    /\ hist     = [i \in Insts |-> [debits |-> 0, records |-> 0, paid |-> 0]]
    /\ gs       = NoRead
    /\ issued   = [k \in 1 .. MaxIssues |-> NoRows]
    /\ creating = NoCreate
    /\ live     = Accounts
    /\ active   = [c \in Cards |-> CardRow(c).IsActive]
    /\ del      = NoDelete

Init ==
    /\ StartWith([a \in Accounts |-> InitBalance(a)])
    /\ probe = NoProbe
    /\ gen = NoGen

SweepInit ==
    /\ \/ StartWith([a \in Accounts |-> SweepBalance(a)])
       \/ StartWith([a \in Accounts |-> SweepBalanceShort(a)])
    /\ probe = NoProbe
    /\ gen = NoGen

\* ------------------------------------------------------- models: requests
ValidateTransferRequest(t) ==
    IF t.src = t.dst THEN "source and destination accounts cannot be the same"
    ELSE IF t.amount <= 0 THEN "amount must be positive"
    ELSE ""

ValidateAmount(amount) ==
    IF amount <= 0 THEN "amount must be positive" ELSE ""

TransferRecord(t) ==
    [TransactionType |-> "TRANSFER", SourceAccountID |-> t.src,
     DestinationAccountID |-> t.dst, Amount |-> t.amount,
     Currency |-> "RUB", Status |-> "PENDING", CardID |-> 0]

DepositRecord(d) ==
    [TransactionType |-> "DEPOSIT", SourceAccountID |-> NoAccount,
     DestinationAccountID |-> d.dst, Amount |-> d.amount,
     Currency |-> "RUB", Status |-> "PENDING", CardID |-> 0]

WithdrawalRecord(w) ==
    [TransactionType |-> "WITHDRAWAL", SourceAccountID |-> w.src,
     DestinationAccountID |-> NoAccount, Amount |-> w.amount,
     Currency |-> "RUB", Status |-> "PENDING", CardID |-> 0]

PaymentRecord(q) ==
    [TransactionType |-> "PAYMENT", SourceAccountID |-> q.src,
     DestinationAccountID |-> NoAccount, Amount |-> q.amount,
     Currency |-> "RUB", Status |-> "PENDING", CardID |-> q.card]

\* ---------------------------------------------- service-level prechecks
\* Each returns the error the service returns before it opens its
\* transaction, or "" when every check passes.  bal is the committed
\* balance the GetByID read sees.
\* the prechecks without the currency comparison
TransferPrecheck_NoCurrency(t, bal) ==
    IF ValidateTransferRequest(t) # "" THEN "invalid transfer request"
    ELSE IF t.src \notin Accounts THEN "failed to get source account"
    ELSE IF AccountRow(t.src).UserID # t.user
        THEN "access denied: source account belongs to another user"
    ELSE IF ~AccountRow(t.src).IsActive THEN "source account is inactive"
    ELSE IF bal[t.src] < t.amount THEN "insufficient funds"
    ELSE IF t.dst \notin Accounts THEN "failed to get destination account"
    ELSE IF ~AccountRow(t.dst).IsActive THEN "destination account is inactive"
    ELSE ""

TransferPrecheck(t, bal) ==
    IF ValidateTransferRequest(t) # "" THEN "invalid transfer request"
    ELSE IF t.src \notin Accounts THEN "failed to get source account"
    ELSE IF AccountRow(t.src).UserID # t.user
        THEN "access denied: source account belongs to another user"
    ELSE IF ~AccountRow(t.src).IsActive THEN "source account is inactive"
    ELSE IF bal[t.src] < t.amount THEN "insufficient funds"
    ELSE IF t.dst \notin Accounts THEN "failed to get destination account"
    ELSE IF ~AccountRow(t.dst).IsActive THEN "destination account is inactive"
    ELSE IF AccountRow(t.src).Currency # AccountRow(t.dst).Currency
        THEN "currency mismatch between accounts"
    ELSE ""

\* AccountSvc.GetByID: the ownership check shared by Deposit and Withdraw
GetByID(a, u) ==
    IF a \notin live THEN "failed to get account"
    ELSE IF AccountRow(a).UserID # u
        THEN "access denied: account belongs to another user"
    ELSE ""

DepositPrecheck(d, bal) ==
    IF ValidateAmount(d.amount) # "" THEN "invalid deposit request"
    ELSE IF GetByID(d.dst, d.user) # "" THEN GetByID(d.dst, d.user)
    ELSE IF ~AccountRow(d.dst).IsActive THEN "account is inactive"
    ELSE ""

WithdrawPrecheck(w, bal) ==
    IF ValidateAmount(w.amount) # "" THEN "invalid withdrawal request"
    ELSE IF GetByID(w.src, w.user) # "" THEN GetByID(w.src, w.user)
    ELSE IF ~AccountRow(w.src).IsActive THEN "account is inactive"
    ELSE IF bal[w.src] < w.amount THEN "insufficient funds"
    ELSE ""

PayPrecheck(q, bal) ==
    IF ValidateAmount(q.amount) # "" THEN "invalid payment request"
    ELSE IF q.src \notin Accounts THEN "failed to get account"
    ELSE IF AccountRow(q.src).UserID # q.user
        THEN "access denied: account belongs to another user"
    ELSE IF ~AccountRow(q.src).IsActive THEN "account is inactive"
    ELSE IF CardRow(q.card).AccountID # q.src
        THEN "card does not belong to specified account"
    ELSE IF ~CardRow(q.card).IsActive THEN "card is inactive"
    ELSE IF bal[q.src] < q.amount THEN "insufficient funds"
    ELSE ""

Precheck(c, bal) ==
    CASE c.kind = "Transfer" -> TransferPrecheck(c, bal)
      [] c.kind = "Deposit"  -> DepositPrecheck(c, bal)
      [] c.kind = "Withdraw" -> WithdrawPrecheck(c, bal)
      [] OTHER               -> PayPrecheck(c, bal)

\* the requests a client can send: <<source, destination>> of a transfer,
\* the account of a deposit or withdrawal, <<account, card>> of a payment
TransferRoutes == {<<1, 2>>, <<2, 1>>, <<3, 4>>, <<1, 1>>, <<1, 3>>, <<1, 5>>, <<5, 1>>}
DepositAccounts == {1, 2, 5}
WithdrawAccounts == {1, 3, 5}
PayRoutes == {<<1, 1>>, <<1, 2>>, <<2, 2>>}

TransferRequests ==
    {[kind |-> "Transfer", user |-> u, src |-> r[1], dst |-> r[2],
      amount |-> m, card |-> 0] : u \in Users, r \in TransferRoutes, m \in Amounts}
DepositRequests ==
    {[kind |-> "Deposit", user |-> u, src |-> NoAccount, dst |-> a,
      amount |-> m, card |-> 0] : u \in Users, a \in DepositAccounts, m \in Amounts}
WithdrawRequests ==
    {[kind |-> "Withdraw", user |-> u, src |-> a, dst |-> NoAccount,
      amount |-> m, card |-> 0] : u \in Users, a \in WithdrawAccounts, m \in Amounts}
PayRequests ==
    {[kind |-> "Pay", user |-> u, src |-> r[1], dst |-> NoAccount,
      amount |-> m, card |-> r[2]] : u \in Users, r \in PayRoutes, m \in Amounts}
Requests == TransferRequests \cup DepositRequests \cup WithdrawRequests
            \cup PayRequests

\* the users logged in on each connection
Sessions(p) == IF p = "r1" THEN {"u1"} ELSE Users

\* Entry of Transfer, Pay, Deposit, Withdraw: validation, the GetByID reads
\* and their checks, then s.repos.DB.BeginTx for the outer transaction.
Start(p, c) ==
    /\ pc[p] = "idle"
    /\ c.user \in Sessions(p)
    /\ ncalls < MaxCalls
    /\ ncalls' = ncalls + 1
    /\ call' = [call EXCEPT ![p] = c]
    /\ LET e == Precheck(c, balance) IN
       IF e # ""
       THEN /\ pc' = [pc EXCEPT ![p] = "ret"]
            /\ res' = [res EXCEPT ![p] = Err(e, "")]
       ELSE \/ /\ pc' = [pc EXCEPT ![p] = "ret"]
               /\ res' = [res EXCEPT ![p] = Err("failed to begin transaction", "")]
            \/ /\ pc' = [pc EXCEPT ![p] =
                            IF c.kind = "Deposit" THEN "credit_lock" ELSE "debit_lock"]
               /\ res' = res
    /\ UNCHANGED <<balance, lock, txns, notif, mailed, cur, tid, eff, nrec, expected,
                   sweepVars, hist, creditVars>>

Transfer(p, c) == c.kind = "Transfer" /\ Start(p, c)
Deposit(p, c)  == c.kind = "Deposit"  /\ Start(p, c)
Withdraw(p, c) == c.kind = "Withdraw" /\ Start(p, c)
Pay(p, c)      == c.kind = "Pay"      /\ Start(p, c)

\* ------------------------------------------------ AccountRepo.UpdateBalance
\* The account and the signed amount of the UpdateBalance call p is in.
Target(p) ==
    IF p = Sweeper THEN SweepAccount
    ELSE IF pc[p] \in {"debit_lock", "debit_write"} THEN call[p].src
    ELSE call[p].dst

Delta(p) ==
    IF p = Sweeper THEN 0 - total
    ELSE IF pc[p] \in {"debit_lock", "debit_write"} THEN 0 - call[p].amount
    ELSE call[p].amount

\* the read takes no row lock
CanLock_NoWait(a) == TRUE

\* the read locks the whole table
CanLock_TableLock(a) == \A b \in Accounts : lock[b] = Free

\* SELECT ... FOR UPDATE waits while another transaction holds the row
CanLock(a) == lock[a] = Free

\* the non-negativity check left out
Insufficient_Unchecked(newBalance) == FALSE

\* if newBalance < 0 { return "insufficient funds" }
Insufficient(newBalance) == newBalance < 0

\* what the caller does with UpdateBalance's error: a request handler
\* returns it wrapped, the sweep goes to its failure branch
FailedUpdate(p, cause) ==
    IF p = Sweeper
    THEN /\ pc' = [pc EXCEPT ![p] = "sw_failed"]
         /\ res' = [res EXCEPT ![p] = Err("failed to update account balance", cause)]
    ELSE /\ pc' = [pc EXCEPT ![p] = "ret"]
         /\ res' = [res EXCEPT ![p] =
                Err(IF call[p].kind # "Transfer" THEN "failed to update balance"
                    ELSE IF pc[p] \in {"debit_lock", "debit_write"}
                    THEN "failed to update source account balance"
                    ELSE "failed to update destination account balance", cause)]

\* the statement after a successful UpdateBalance
AfterUpdate(p) ==
    IF p = Sweeper THEN "sw_record"
    ELSE IF call[p].kind = "Transfer" /\ pc[p] = "debit_write" THEN "credit_lock"
    ELSE "record"

\* SELECT balance ... FOR UPDATE returns: the row is locked and read
Acquire(p) ==
    /\ pc[p] \in {"debit_lock", "credit_lock"}
    /\ Target(p) \in live
    /\ CanLock(Target(p))
    /\ lock' = [lock EXCEPT ![Target(p)] = p]
    /\ cur' = [cur EXCEPT ![p] = balance[Target(p)]]
    /\ pc' = [pc EXCEPT ![p] = IF pc[p] = "debit_lock" THEN "debit_write"
                                                    ELSE "credit_write"]
    /\ res' = res

\* BeginTx and SELECT balance ... FOR UPDATE
UpdateBalanceLock(p) ==
    /\ pc[p] \in {"debit_lock", "credit_lock"}
    /\ \/ /\ FailedUpdate(p, "failed to get current balance")
          /\ UNCHANGED <<lock, cur>>
       \/ Acquire(p)
    /\ UNCHANGED <<balance, txns, notif, mailed, call, tid, eff, nrec, expected,
                   ncalls, sweepVars, hist, creditVars>>

\* the check, UPDATE accounts SET balance, Commit, and the deferred Rollback.
\* The insufficient-funds return leaves the local err nil, so the deferred
\* function does not roll back and the row stays locked by the open
\* transaction.
UpdateBalanceCommit(p) ==
    /\ pc[p] \in {"debit_write", "credit_write"}
    /\ LET a == Target(p)
           newBalance == cur[p] + Delta(p)
       IN IF Insufficient(newBalance)
          THEN /\ lock' = [lock EXCEPT ![a] = Leaked(p)]
               /\ FailedUpdate(p, "insufficient funds")
               /\ UNCHANGED <<balance, eff, expected, hist>>
          ELSE \/ /\ lock' = [lock EXCEPT ![a] = Free]
                  /\ FailedUpdate(p, "failed to update balance")
                  /\ UNCHANGED <<balance, eff, expected, hist>>
               \/ /\ lock' = [lock EXCEPT ![a] = Free]
                  /\ balance' = [balance EXCEPT ![a] = newBalance]
                  /\ expected' = [expected EXCEPT ![a] = @ + Delta(p)]
                  /\ eff' = IF p = Sweeper THEN eff
                             ELSE [eff EXCEPT ![p][a] = @ + Delta(p)]
                  /\ hist' = IF p = Sweeper
                              THEN [hist EXCEPT ![pay.ID].debits = @ + 1]
                              ELSE hist
                  /\ pc' = [pc EXCEPT ![p] = AfterUpdate(p)]
                  /\ res' = res
    /\ cur' = [cur EXCEPT ![p] = 0]
    /\ UNCHANGED <<txns, notif, mailed, call, tid, nrec, ncalls, sweepVars, creditVars>>

\* database/sql rolls an abandoned transaction back when the context it
\* was begun with is cancelled; a request's context is cancelled when its
\* handler returns.
ReleaseLeaked(a) ==
    /\ lock[a] = LeakedReq
    /\ lock' = [lock EXCEPT ![a] = Free]
    /\ UNCHANGED <<balance, txns, notif, mailed, pc, call, cur, res, tid, eff,
                   nrec, expected, ncalls, sweepVars, hist, creditVars>>

\* ------------------------------------------- record, commit, notification
\* every service sets Status to COMPLETED before the insert
ToTransaction_Completed(c) ==
    CASE c.kind = "Transfer" ->
            [TransferRecord(c) EXCEPT !.Currency = AccountRow(c.src).Currency,
                                      !.Status = "COMPLETED"]
      [] c.kind = "Pay" ->
            [PaymentRecord(c) EXCEPT !.Currency = AccountRow(c.src).Currency,
                                     !.Status = "COMPLETED"]
      [] c.kind = "Deposit" -> [DepositRecord(c) EXCEPT !.Status = "COMPLETED"]
      [] OTHER -> [WithdrawalRecord(c) EXCEPT !.Status = "COMPLETED"]

\* the Transaction the handler passes to TransactionRepo.Create
ToTransaction(c) ==
    CASE c.kind = "Transfer" ->
            [TransferRecord(c) EXCEPT !.Currency = AccountRow(c.src).Currency,
                                      !.Status = "COMPLETED"]
      [] c.kind = "Pay" ->
            [PaymentRecord(c) EXCEPT !.Currency = AccountRow(c.src).Currency,
                                     !.Status = "COMPLETED"]
      [] c.kind = "Deposit" -> DepositRecord(c)
      [] OTHER -> WithdrawalRecord(c)

\* TransactionRepo.Create runs its INSERT on the pool (r.db), outside the
\* handler's transaction: the row is committed when Create returns.
Create(p) ==
    /\ p \in Procs
    /\ pc[p] = "record"
    /\ \/ /\ pc' = [pc EXCEPT ![p] = "ret"]
          /\ res' = [res EXCEPT ![p] = Err("failed to create transaction record", "")]
          /\ UNCHANGED <<txns, tid, nrec>>
       \/ /\ \A a \in {call[p].src, call[p].dst} \ {NoAccount} : a \in live
          /\ txns' = Append(txns, ToTransaction(call[p]))
          /\ tid' = [tid EXCEPT ![p] = Len(txns) + 1]
          /\ nrec' = [nrec EXCEPT ![p] = @ + 1]
          /\ pc' = [pc EXCEPT ![p] = "commit"]
          /\ res' = res
    /\ UNCHANGED <<balance, lock, notif, mailed, call, cur, eff, expected, ncalls,
                   sweepVars, hist, creditVars>>

\* Transfer and Pay start the notification goroutine after a nil Commit
Notifies(c) == c.kind \in {"Transfer", "Pay"}

\* the goroutine started before the result of Commit is looked at
Commit_NotifyFirst(p) ==
    /\ p \in Procs
    /\ pc[p] = "commit"
    /\ \/ res' = [res EXCEPT ![p] = Err("failed to commit transaction", "")]
       \/ res' = [res EXCEPT ![p] = Ok]
    /\ notif' = IF Notifies(call[p]) THEN notif \cup {tid[p]} ELSE notif
    /\ pc' = [pc EXCEPT ![p] = "ret"]
    /\ UNCHANGED <<balance, lock, txns, mailed, call, cur, tid, eff, nrec, expected,
                   ncalls, sweepVars, hist, creditVars>>

\* tx.Commit() of the handler's transaction, which no statement ran in,
\* and the return that follows it.
Commit(p) ==
    /\ p \in Procs
    /\ pc[p] = "commit"
    /\ \/ /\ res' = [res EXCEPT ![p] = Err("failed to commit transaction", "")]
          /\ notif' = notif
       \/ /\ res' = [res EXCEPT ![p] = Ok]
          /\ notif' = IF Notifies(call[p]) THEN notif \cup {tid[p]} ELSE notif
    /\ pc' = [pc EXCEPT ![p] = "ret"]
    /\ UNCHANGED <<balance, lock, txns, mailed, call, cur, tid, eff, nrec, expected,
                   ncalls, sweepVars, hist, creditVars>>

\* the goroutine: SendTransactionNotification, its error only logged
SendTransactionNotification(n, sent) ==
    /\ n \in notif
    /\ notif' = notif \ {n}
    /\ mailed' = mailed \cup {<<n, sent>>}
    /\ UNCHANGED <<balance, lock, txns, pc, call, cur, res, tid, eff, nrec,
                   expected, ncalls, sweepVars, hist, creditVars>>

\* the handler writes the response; the goroutine is free for a new request
Return(p) ==
    /\ p \in Procs
    /\ pc[p] = "ret"
    /\ pc' = [pc EXCEPT ![p] = "idle"]
    /\ call' = [call EXCEPT ![p] = NoCall]
    /\ res' = [res EXCEPT ![p] = Ok]
    /\ tid' = [tid EXCEPT ![p] = 0]
    /\ eff' = [eff EXCEPT ![p] = ZeroEff]
    /\ nrec' = [nrec EXCEPT ![p] = 0]
    /\ UNCHANGED <<balance, lock, txns, notif, mailed, cur, expected, ncalls,
                   sweepVars, hist, creditVars>>

\* ------------------------------------------------------------ the sweep
\* math.Round(value*100)/100 of a tenth of an amount, in minor units
TenPercent(amount) == (amount + 5) \div 10

\* the penalty applied from the first whole day on
UpdateScheduleStatus_NoGrace(s, t) ==
    IF s.Status = "PENDING" /\ t > s.PaymentDate
    THEN LET daysOverdue == (t - s.PaymentDate) \div TicksPerDay
         IN [s EXCEPT !.IsOverdue = TRUE,
                      !.Status = "OVERDUE",
                      !.PenaltyAmount = IF daysOverdue > 0
                                        THEN TenPercent(s.TotalAmount) ELSE @]
    ELSE s

\* models.UpdateScheduleStatus at clock value t: now.After(PaymentDate),
\* daysOverdue := int(now.Sub(PaymentDate).Hours() / 24)
UpdateScheduleStatus(s, t) ==
    IF s.Status = "PENDING" /\ t > s.PaymentDate
    THEN LET daysOverdue == (t - s.PaymentDate) \div TicksPerDay
         IN [s EXCEPT !.IsOverdue = TRUE,
                      !.Status = "OVERDUE",
                      !.PenaltyAmount = IF daysOverdue > 1
                                        THEN TenPercent(s.TotalAmount) ELSE @]
    ELSE s

\* the fetch without its status filter
IsPendingDue_AnyStatus(s, t) == s.PaymentDate <= t

\* WHERE ps.status = 'PENDING' AND ps.payment_date <= $2
IsPendingDue(s, t) == s.Status = "PENDING" /\ s.PaymentDate <= t

\* GetPendingPayments: the rows in an order ORDER BY payment_date allows
GetPendingPayments(t) ==
    LET due == {i \in Insts : IsPendingDue(schedules[i], t)}
    IN {q \in [1 .. Cardinality(due) -> due] :
            /\ \A j, k \in DOMAIN q : j # k => q[j] # q[k]
            /\ \A j, k \in DOMAIN q :
                  j < k => schedules[q[j]].PaymentDate <= schedules[q[k]].PaymentDate}

\* the penalty left out of the amount
TotalDue_NoPenalty(s) == s.TotalAmount

\* totalAmount := payment.TotalAmount (+ PenaltyAmount if IsOverdue)
TotalDue(s) == s.TotalAmount + (IF s.IsOverdue THEN s.PenaltyAmount ELSE 0)

Update_WithTotal(rows, s) ==
    [rows EXCEPT ![s.ID] = [@ EXCEPT !.Status = s.Status,
                                     !.IsOverdue = s.IsOverdue,
                                     !.PenaltyAmount = s.PenaltyAmount,
                                     !.TotalAmount = TotalDue(s)]]

\* PaymentScheduleRepo.Update: SET status, is_overdue, penalty_amount
Update(rows, s) ==
    [rows EXCEPT ![s.ID] = [@ EXCEPT !.Status = s.Status,
                                     !.IsOverdue = s.IsOverdue,
                                     !.PenaltyAmount = s.PenaltyAmount]]

requestVars == <<notif, mailed, call, tid, eff, nrec, expected, ncalls>>

\* entry of ProcessPayments: the fetch of the due pending payments
ProcessPayments ==
    /\ pc[Sweeper] = "idle"
    /\ nsweeps < MaxSweeps
    /\ nsweeps' = nsweeps + 1
    /\ \/ UNCHANGED <<pc, queue>>          \* the fetch failed: return err
       \/ \E q \in GetPendingPayments(now) :
            /\ queue' = [k \in DOMAIN q |-> schedules[q[k]]]
            /\ pc' = [pc EXCEPT ![Sweeper] = "sw_next"]
    /\ UNCHANGED <<balance, lock, txns, cur, res, schedules, creditStatus, now,
                   pay, total, hist, requestVars, creditVars>>

\* head of the loop body: Credit.GetByID, Account.GetByID,
\* UpdateScheduleStatus, totalAmount, BeginTx; or the loop's end
NextPayment ==
    /\ pc[Sweeper] = "sw_next"
    /\ IF queue = << >>
       THEN /\ pc' = [pc EXCEPT ![Sweeper] = "idle"]
            /\ pay' = NoPay
            /\ total' = 0
            /\ queue' = queue
       ELSE /\ queue' = Tail(queue)
            /\ \/ /\ pay' = NoPay          \* a read or BeginTx failed: continue
                  /\ total' = 0
                  /\ pc' = pc
               \/ /\ pay' = UpdateScheduleStatus(Head(queue), now)
                  /\ total' = TotalDue(pay')
                  /\ pc' = [pc EXCEPT ![Sweeper] = "debit_lock"]
    /\ UNCHANGED <<balance, lock, txns, cur, res, schedules, creditStatus, now,
                   nsweeps, hist, requestVars, creditVars>>

\* err != nil after UpdateBalance: Rollback, and on "insufficient funds"
\* the overdue branch with its two updates, each of which may fail
MarkOverdue ==
    /\ pc[Sweeper] = "sw_failed"
    /\ IF res[Sweeper].cause = "insufficient funds"
       THEN LET late == [pay EXCEPT !.Status = "OVERDUE",
                                    !.IsOverdue = TRUE,
                                    !.PenaltyAmount =
                                        IF @ = 0 THEN TenPercent(pay.TotalAmount) ELSE @]
            IN /\ \/ schedules' = Update(schedules, late)
                  \/ schedules' = schedules
               /\ \/ creditStatus' = [creditStatus EXCEPT ![pay.CreditID] = "OVERDUE"]
                  \/ creditStatus' = creditStatus
       ELSE UNCHANGED <<schedules, creditStatus>>
    /\ pc' = [pc EXCEPT ![Sweeper] = "sw_next"]
    /\ res' = [res EXCEPT ![Sweeper] = Ok]
    /\ pay' = NoPay
    /\ total' = 0
    /\ UNCHANGED <<balance, lock, txns, cur, now, queue, nsweeps, hist, requestVars, creditVars>>

\* the record left in the status a request record starts with
SweepRecord_Pending ==
    [TransactionType |-> "PAYMENT", SourceAccountID |-> SweepAccount,
     DestinationAccountID |-> NoAccount, Amount |-> total,
     Currency |-> "RUB", Status |-> "PENDING", CardID |-> 0]

\* the PAYMENT record of the sweep
SweepRecord ==
    [TransactionType |-> "PAYMENT", SourceAccountID |-> SweepAccount,
     DestinationAccountID |-> NoAccount, Amount |-> total,
     Currency |-> "RUB", Status |-> "COMPLETED", CardID |-> 0]

\* Transaction.Create of the paymentTransaction
RecordPayment ==
    /\ pc[Sweeper] = "sw_record"
    /\ \/ /\ pc' = [pc EXCEPT ![Sweeper] = "sw_next"]
          /\ pay' = NoPay
          /\ total' = 0
          /\ UNCHANGED <<txns, hist>>
       \/ /\ txns' = Append(txns, SweepRecord)
          /\ hist' = [hist EXCEPT ![pay.ID].records = @ + 1]
          /\ pc' = [pc EXCEPT ![Sweeper] = "sw_paid"]
          /\ UNCHANGED <<pay, total>>
    /\ UNCHANGED <<balance, lock, cur, res, schedules, creditStatus, now, queue,
                   nsweeps, requestVars, creditVars>>

\* payment.Status = PAID, PaymentSchedule.Update, tx.Commit
MarkPaid ==
    /\ pc[Sweeper] = "sw_paid"
    /\ \/ UNCHANGED <<schedules, hist>>
       \/ /\ schedules' = Update(schedules, [pay EXCEPT !.Status = "PAID"])
          /\ hist' = [hist EXCEPT ![pay.ID].paid = @ + 1]
    /\ pc' = [pc EXCEPT ![Sweeper] = "sw_next"]
    /\ pay' = NoPay
    /\ total' = 0
    /\ UNCHANGED <<balance, lock, txns, cur, res, creditStatus, now, queue,
                   nsweeps, requestVars, creditVars>>

\* time passes
Tick ==
    /\ now < MaxNow
    /\ now' = now + 1
    /\ UNCHANGED <<balance, lock, txns, pc, cur, res, schedules, creditStatus,
                   queue, pay, total, nsweeps, hist, requestVars, creditVars>>

\* ------------------------------------------------------ the schedule read
\* PaymentScheduleRepo.GetByCreditID: the rows of a credit in an order
\* ORDER BY payment_date allows
GetByCreditID(c) ==
    LET mine == {i \in Insts : schedules[i].CreditID = c}
    IN {q \in [1 .. Cardinality(mine) -> mine] :
            /\ \A j, k \in DOMAIN q : j # k => q[j] # q[k]
            /\ \A j, k \in DOMAIN q :
                  j < k => schedules[q[j]].PaymentDate <= schedules[q[k]].PaymentDate}

\* entry of GetSchedule: s.GetByID with its ownership check, then the read
\* of the credit's schedule; an error of either returns at once
GetSchedule(c, u) ==
    /\ gs.pc = "idle"
    /\ gs.calls < MaxReads
    /\ \/ gs' = [gs EXCEPT !.calls = @ + 1]
       \/ /\ CreditRow(c).UserID = u
          /\ \E q \in GetByCreditID(c) :
                gs' = [pc |-> "gs_update", credit |-> c,
                       rows |-> [k \in DOMAIN q |-> schedules[q[k]]],
                       updated |-> FALSE, calls |-> gs.calls + 1]
    /\ UNCHANGED <<balance, lock, txns, pc, cur, res, schedules, creditStatus,
                   now, queue, pay, total, nsweeps, hist, requestVars, calcVars, issueVars,
                   deleteVars>>

\* one iteration of the loop over the schedules read: a pending one is
\* passed to UpdateScheduleStatus and, if its status changed, written back
GetScheduleUpdate ==
    /\ gs.pc = "gs_update"
    /\ gs.rows # << >>
    /\ LET schedule == Head(gs.rows)
           late == UpdateScheduleStatus(schedule, now)
       IN IF schedule.Status = "PENDING" /\ late.Status # schedule.Status
          THEN \/ /\ schedules' = schedules
                  /\ gs' = [gs EXCEPT !.rows = Tail(@)]
               \/ /\ schedules' = Update(schedules, late)
                  /\ gs' = [gs EXCEPT !.rows = Tail(@), !.updated = TRUE]
          ELSE /\ schedules' = schedules
               /\ gs' = [gs EXCEPT !.rows = Tail(@)]
    /\ UNCHANGED <<balance, lock, txns, pc, cur, res, creditStatus, now, queue,
                   pay, total, nsweeps, hist, requestVars, calcVars, issueVars,
                   deleteVars>>

\* after the loop: if updated, credit.Status = OVERDUE and Credit.Update,
\* whose error is only logged; then the responses are returned
GetScheduleReturn ==
    /\ gs.pc = "gs_update"
    /\ gs.rows = << >>
    /\ IF gs.updated
       THEN \/ creditStatus' = [creditStatus EXCEPT ![gs.credit] = "OVERDUE"]
            \/ creditStatus' = creditStatus
       ELSE creditStatus' = creditStatus
    /\ gs' = [NoRead EXCEPT !.calls = gs.calls]
    /\ UNCHANGED <<balance, lock, txns, pc, cur, res, schedules, now, queue,
                   pay, total, nsweeps, hist, requestVars, calcVars, issueVars,
                   deleteVars>>

\* ------------------------------------------- UpdateScheduleStatus alone
\* the schedule items and clock values UpdateScheduleStatus is applied to
ProbeRows ==
    [ID : {1}, CreditID : {1}, PaymentDate : {0, TicksPerDay},
     TotalAmount : {10, 14, 15},
     Status : {"PENDING", "PAID", "OVERDUE", "CANCELLED"},
     IsOverdue : BOOLEAN, PenaltyAmount : {0, 1}]
ProbeTimes == 0 .. 3 * TicksPerDay

\* models.UpdateScheduleStatus(schedule) at time.Now() = probe.t
ApplyUpdateScheduleStatus ==
    /\ ~probe.done
    /\ probe' = [probe EXCEPT !.out = UpdateScheduleStatus(probe.in, probe.t),
                              !.done = TRUE]
    /\ UNCHANGED <<balance, lock, txns, pc, cur, res, hist, sweepVars,
                   requestVars, gs, gen, issueVars, deleteVars>>

\* ---------------------------------------------------- the amortization
\* Amounts of a credit are minor units (cents); the float64 intermediate
\* values of the calculation carry Sub parts of a cent, and a power of
\* 1 + monthlyInterestRate carries PowScale parts of one.
Sub == 100000
PowScale == 10000000

\* interestRate of a request that names none while the key-rate service is
\* down: baseInterestRate 7.0 + 5.0, in percent a year
InterestRate == 12

\* math.Round(value*100)/100, of a value >= 0 given in parts of a cent
roundToTwoDecimal(value) == (value + Sub \div 2) \div Sub

\* math.Pow(1+monthlyInterestRate, float64(termMonths)),
\* monthlyInterestRate = annualInterestRate / 12 / 100
RECURSIVE Pow(_)
Pow(termMonths) ==
    IF termMonths = 0 THEN PowScale
    ELSE LET x == Pow(termMonths - 1)
         IN x + (x * InterestRate) \div 1200

\* roundToTwoDecimal(CalculateMonthlyPayment(principal, rate, termMonths)):
\* principal * m * pow / (pow - 1), rounded to cents
MonthlyPayment(principal, termMonths) ==
    LET first == (principal * InterestRate) \div 1200
        pow == Pow(termMonths)
    IN (2 * first * pow + (pow - PowScale)) \div (2 * (pow - PowScale))

\* A date is a day of a month, months counted from January of the year the
\* credit starts in (13 is the next January); the years are not leap years.
DaysIn(month) ==
    LET k == ((month - 1) % 12) + 1
    IN CASE k = 2 -> 28
         [] k \in {4, 6, 9, 11} -> 30
         [] OTHER -> 31

\* date.AddDate(0, 1, 0): the same day of the next month, and a day the
\* next month does not have is normalized into the month after it
addOneMonth(date) ==
    LET next == date.month + 1
    IN IF date.day <= DaysIn(next)
       THEN [month |-> next, day |-> date.day]
       ELSE [month |-> next + 1, day |-> date.day - DaysIn(next)]

\* CreditRequest.ToCredit at time.Now() = today
ToCredit(req, today) ==
    [Amount |-> req.Amount, TermMonths |-> req.TermMonths,
     MonthlyPayment |-> MonthlyPayment(req.Amount, req.TermMonths),
     StartDate |-> today]

\* the loop of GeneratePaymentSchedule from iteration i on, with
\* remainingPrincipal in parts of a cent
RECURSIVE Installments(_, _, _, _)
Installments(credit, i, remainingPrincipal, paymentDate) ==
    IF i >= credit.TermMonths THEN << >>
    ELSE LET interestAmount == (remainingPrincipal \div 1200) * InterestRate
                               + ((remainingPrincipal % 1200) * InterestRate) \div 1200
             raw == IF i = credit.TermMonths - 1 THEN remainingPrincipal
                    ELSE credit.MonthlyPayment * Sub - interestAmount
             principalAmount == IF raw < 0 THEN 0 ELSE raw
         IN <<[PrincipalAmount |-> roundToTwoDecimal(principalAmount),
               InterestAmount |-> roundToTwoDecimal(interestAmount),
               TotalAmount |-> roundToTwoDecimal(principalAmount + interestAmount),
               PaymentDate |-> paymentDate,
               Status |-> "PENDING", IsOverdue |-> FALSE,
               PenaltyAmount |-> 0]>>
            \o Installments(credit, i + 1, remainingPrincipal - principalAmount,
                            addOneMonth(paymentDate))

GeneratePaymentSchedule(credit) ==
    Installments(credit, 0, credit.Amount * Sub, credit.StartDate)

\* the days ToCredit takes as start date
StartDates == {[month |-> m, day |-> d] : m \in {1, 3}, d \in {1, 28, 31}}

\* the valid requests of the bounds: whole currency units, in cents
CreditRequests ==
    {[Amount |-> 100 * u, TermMonths |-> n] : u \in 1 .. MaxPrincipal, n \in 1 .. MaxTerm}

\* credit := creditReq.ToCredit(...); models.GeneratePaymentSchedule(credit)
ApplyGeneratePaymentSchedule ==
    /\ ~gen.done
    /\ gen' = [gen EXCEPT !.schedule =
                              GeneratePaymentSchedule(ToCredit(gen.req, gen.start)),
                          !.done = TRUE]
    /\ UNCHANGED <<balance, lock, txns, pc, cur, res, hist, sweepVars,
                   requestVars, gs, probe, issueVars, deleteVars>>

\* ------------------------------------------------------ credit issuance
\* CreditRequest.ValidateCreditRequest
ValidateCreditRequest(c) ==
    IF c.Amount <= 0 THEN "amount must be positive"
    ELSE IF c.TermMonths < 1 \/ c.TermMonths > 360
    THEN "term must be between 1 and 360 months"
    ELSE ""

\* the id Account.Create returns for the account of issuance k
NewAccount(k) == Cardinality(Accounts) + k

\* the requests CreditSvc.Create is called with, amounts in cents
IssueRequests == [Amount : {0, 100}, TermMonths : 0 .. 2]

\* return 0, fmt.Errorf(e): the deferred tx.Rollback() rolls back the outer
\* transaction, which no statement ran in
CreateFails(e) ==
    creating' = [creating EXCEPT !.pc = "cr_ret", !.err = e]

\* entry of CreditSvc.Create: validation, User.GetByID, GetKeyRate, BeginTx
CreditSvcCreate(req) ==
    /\ creating.pc = "idle"
    /\ creating.id < MaxIssues
    /\ LET c == [NoCreate EXCEPT !.id = creating.id + 1, !.req = req]
       IN IF ValidateCreditRequest(req) # ""
          THEN creating' = [c EXCEPT !.pc = "cr_ret", !.err = "invalid credit request"]
          ELSE \/ creating' = [c EXCEPT !.pc = "cr_ret", !.err = "user not found"]
               \/ creating' = [c EXCEPT !.pc = "cr_ret",
                                        !.err = "failed to begin transaction"]
               \/ creating' = [c EXCEPT !.pc = "cr_account"]
    /\ UNCHANGED <<balance, lock, txns, pc, cur, res, hist, sweepVars,
                   requestVars, gs, calcVars, issued, deleteVars>>

\* s.repos.Account.Create: INSERT on the pool
AccountCreate ==
    /\ creating.pc = "cr_account"
    /\ \/ /\ CreateFails("failed to create credit account")
          /\ issued' = issued
       \/ /\ issued' = [issued EXCEPT ![creating.id].account = TRUE]
          /\ creating' = [creating EXCEPT !.pc = "cr_credit"]
    /\ UNCHANGED <<balance, lock, txns, pc, cur, res, hist, sweepVars,
                   requestVars, gs, calcVars, deleteVars>>

\* creditReq.ToCredit and s.repos.Credit.Create: INSERT on the pool
CreditCreate ==
    /\ creating.pc = "cr_credit"
    /\ \/ /\ CreateFails("failed to create credit")
          /\ issued' = issued
       \/ /\ issued[creating.id].account
          /\ issued' = [issued EXCEPT ![creating.id].credit = TRUE]
          /\ creating' = [creating EXCEPT
                !.pc = "cr_batch",
                !.MonthlyPayment =
                    ToCredit(creating.req, NoGen.start).MonthlyPayment]
    /\ UNCHANGED <<balance, lock, txns, pc, cur, res, hist, sweepVars,
                   requestVars, gs, calcVars, deleteVars>>

\* GeneratePaymentSchedule and PaymentSchedule.CreateBatch, which inserts
\* all rows in a transaction of its own
CreateBatch ==
    /\ creating.pc = "cr_batch"
    /\ \/ /\ CreateFails("failed to create payment schedule")
          /\ issued' = issued
       \/ /\ issued' = [issued EXCEPT ![creating.id].installments =
                Len(GeneratePaymentSchedule(
                      [Amount |-> creating.req.Amount,
                       TermMonths |-> creating.req.TermMonths,
                       MonthlyPayment |-> creating.MonthlyPayment,
                       StartDate |-> NoGen.start]))]
          /\ creating' = [creating EXCEPT !.pc = "cr_balance"]
    /\ UNCHANGED <<balance, lock, txns, pc, cur, res, hist, sweepVars,
                   requestVars, gs, calcVars, deleteVars>>

\* s.repos.Account.UpdateBalance(ctx, accountID, creditReq.Amount): a
\* transaction of its own on the row of the new account, which no other
\* call knows yet
CreditUpdateBalance ==
    /\ creating.pc = "cr_balance"
    /\ \/ /\ CreateFails("failed to update credit account balance")
          /\ issued' = issued
       \/ /\ ~(del.held /\ del.id = NewAccount(creating.id))
          /\ issued' = [issued EXCEPT ![creating.id].balance = @ + creating.req.Amount]
          /\ creating' = [creating EXCEPT !.pc = "cr_record"]
    /\ UNCHANGED <<balance, lock, txns, pc, cur, res, hist, sweepVars,
                   requestVars, gs, calcVars, deleteVars>>

\* the depositTransaction of the issuance in progress
CreditDepositTransaction ==
    [TransactionType |-> "DEPOSIT", SourceAccountID |-> NoAccount,
     DestinationAccountID |-> NewAccount(creating.id),
     Amount |-> creating.req.Amount,
     Currency |-> "RUB", Status |-> "COMPLETED", CardID |-> 0]

\* s.repos.Transaction.Create(ctx, depositTransaction): INSERT on the pool
CreditDepositRecord ==
    /\ creating.pc = "cr_record"
    /\ \/ /\ CreateFails("failed to create deposit transaction")
          /\ issued' = issued
          /\ txns' = txns
       \/ /\ issued' = [issued EXCEPT ![creating.id].records = @ + 1]
          /\ txns' = Append(txns, CreditDepositTransaction)
          /\ creating' = [creating EXCEPT !.pc = "cr_commit"]
    /\ UNCHANGED <<balance, lock, pc, cur, res, hist, sweepVars,
                   requestVars, gs, calcVars, deleteVars>>

\* tx.Commit() of the outer transaction and the return of creditID, nil
CreditCommit ==
    /\ creating.pc = "cr_commit"
    /\ \/ CreateFails("failed to commit transaction")
       \/ creating' = [creating EXCEPT !.pc = "cr_ret"]
    /\ UNCHANGED <<balance, lock, txns, pc, cur, res, hist, sweepVars,
                   requestVars, gs, calcVars, issued, deleteVars>>

\* the handler writes the response
CreditReturn ==
    /\ creating.pc = "cr_ret"
    /\ creating' = [NoCreate EXCEPT !.id = creating.id]
    /\ UNCHANGED <<balance, lock, txns, pc, cur, res, hist, sweepVars,
                   requestVars, gs, calcVars, issued, deleteVars>>

\* ------------------------------------------------------ AccountSvc.Delete
AllAccounts == Accounts \cup {NewAccount(k) : k \in 1 .. MaxIssues}

\* the accounts Delete is called for: with an active card and a credit, with
\* a balance, with nothing, with an inactive card, of the first issuance
DeleteAccounts == {1, 3, 4, 5, NewAccount(1)}
Issuance(a) == a - Cardinality(Accounts)

\* the user CreditSvc.Create opens the credit account for
NewOwner == "u1"

\* the row is in table accounts
Exists(a) == IF a \in Accounts THEN a \in live ELSE issued[Issuance(a)].account

\* accounts.balance
BalanceOf(a) == IF a \in Accounts THEN balance[a] ELSE issued[Issuance(a)].balance

\* Card.GetByAccountID, filtered by card.IsActive
ActiveCards(a) == {c \in Cards : CardRow(c).AccountID = a /\ active[c]}

\* credits.account_id REFERENCES accounts(id)
CreditRef(a) ==
    IF a \in Accounts THEN \E c \in Credits : CreditRow(c).AccountID = a
    ELSE issued[Issuance(a)].credit

\* transactions.source_account_id and destination_account_id REFERENCES
\* accounts(id)
TxnRef(a) ==
    IF a \in Accounts
    THEN \E i \in DOMAIN txns : \/ txns[i].SourceAccountID = a
                                \/ txns[i].DestinationAccountID = a
    ELSE issued[Issuance(a)].records > 0

\* the foreign keys are declared ON DELETE CASCADE
Referenced_Cascade(a) == FALSE

\* a row of cards, credits or transactions references the account: the
\* foreign keys have no ON DELETE clause, so DELETE FROM accounts fails
Referenced(a) ==
    \/ \E c \in Cards : CardRow(c).AccountID = a
    \/ CreditRef(a)
    \/ TxnRef(a)

\* return fmt.Errorf(e) from AccountSvc.Delete
DeleteFails(d, e) == del' = [d EXCEPT !.pc = "del_ret", !.err = e]

\* entry of AccountSvc.Delete: GetByID with the ownership check, then
\* Card.GetByAccountID and the loop over the cards
AccountDelete(id, u) ==
    /\ del.pc = "idle"
    /\ del.calls < MaxDeletes
    /\ LET d == [NoDelete EXCEPT !.id = id, !.user = u, !.calls = del.calls + 1]
           e == IF id \in Accounts THEN GetByID(id, u)
                ELSE IF ~Exists(id) THEN "failed to get account"
                ELSE IF NewOwner # u
                THEN "access denied: account belongs to another user"
                ELSE ""
       IN IF e # "" THEN DeleteFails(d, e)
          ELSE \/ DeleteFails(d, "failed to get cards")
               \/ IF ActiveCards(id) # {}
                  THEN DeleteFails(d, "cannot delete account with active cards")
                  ELSE del' = [d EXCEPT !.pc = "del_lock"]
    /\ UNCHANGED <<balance, lock, txns, notif, mailed, pc, call, cur, res, tid,
                   eff, nrec, expected, ncalls, sweepVars, hist, gs, calcVars,
                   issueVars, live, active>>

\* AccountRepo.Delete: BeginTx and SELECT balance ... FOR UPDATE, which
\* waits while another transaction holds the row
DeleteLock ==
    /\ del.pc = "del_lock"
    /\ \/ /\ DeleteFails(del, "failed to delete account")
          /\ lock' = lock
       \/ /\ Exists(del.id)
          /\ IF del.id \in Accounts
             THEN /\ CanLock(del.id)
                  /\ lock' = [lock EXCEPT ![del.id] = Deleter]
             ELSE lock' = lock
          /\ del' = [del EXCEPT !.pc = "del_row", !.cur = BalanceOf(del.id),
                                !.held = TRUE]
    /\ UNCHANGED <<balance, txns, notif, mailed, pc, call, cur, res, tid,
                   eff, nrec, expected, ncalls, sweepVars, hist, gs, calcVars,
                   issueVars, live, active>>

\* the balance check, DELETE FROM accounts, Commit and the deferred
\* Rollback.  The non-zero-balance return leaves the local err nil, so the
\* transaction stays open until the request's context is cancelled.
DeleteRow ==
    /\ del.pc = "del_row"
    /\ IF del.cur > 0
       THEN /\ DeleteFails(del, "cannot delete account with non-zero balance")
            /\ lock' = IF del.id \in Accounts
                       THEN [lock EXCEPT ![del.id] = LeakedReq] ELSE lock
            /\ UNCHANGED <<live, issued>>
       ELSE \/ /\ del' = [del EXCEPT !.pc = "del_ret", !.held = FALSE,
                                      !.err = "failed to delete account"]
               /\ lock' = IF del.id \in Accounts
                          THEN [lock EXCEPT ![del.id] = Free] ELSE lock
               /\ UNCHANGED <<live, issued>>
            \/ /\ ~Referenced(del.id)
               /\ del' = [del EXCEPT !.pc = "del_ret", !.held = FALSE]
               /\ lock' = IF del.id \in Accounts
                          THEN [lock EXCEPT ![del.id] = Free] ELSE lock
               /\ live' = live \ {del.id}
               /\ issued' = IF del.id \in Accounts THEN issued
                            ELSE [issued EXCEPT ![Issuance(del.id)].account = FALSE]
    /\ UNCHANGED <<balance, txns, notif, mailed, pc, call, cur, res, tid,
                   eff, nrec, expected, ncalls, sweepVars, hist, gs, calcVars,
                   creating, active>>

\* AccountHandler.Delete writes the response; the request's context is
\* cancelled and database/sql rolls back what it left open
DeleteReturn ==
    /\ del.pc = "del_ret"
    /\ del' = [NoDelete EXCEPT !.calls = del.calls]
    /\ UNCHANGED <<balance, lock, txns, notif, mailed, pc, call, cur, res, tid,
                   eff, nrec, expected, ncalls, sweepVars, hist, gs, calcVars,
                   issueVars, live, active>>

\* CardSvc.Update: Card.GetByID, Account.GetByID with the ownership check,
\* Card.Update of is_active
CardUpdate(c, u, on) ==
    /\ Exists(CardRow(c).AccountID)
    /\ AccountRow(CardRow(c).AccountID).UserID = u
    /\ active' = [active EXCEPT ![c] = on]
    /\ UNCHANGED <<balance, lock, txns, notif, mailed, pc, call, cur, res, tid,
                   eff, nrec, expected, ncalls, sweepVars, hist, gs, calcVars,
                   issueVars, live, del>>

\* the owner's deposits into the account that has no cards and no credits
DeleteDeposits ==
    {[kind |-> "Deposit", user |-> AccountRow(4).UserID, src |-> NoAccount,
      dst |-> 4, amount |-> m, card |-> 0] : m \in Amounts}

\* the cards of accounts without balance and credits
DeleteCards == {c \in Cards : CardRow(c).AccountID = 5}

\* the credit issued next to the deletions
DeleteIssues == {[Amount |-> 100, TermMonths |-> 1]}

\* ------------------------------------------------------- specifications
Next ==
    \/ \E p \in Procs, c \in TransferRequests : Transfer(p, c)
    \/ \E p \in Procs, c \in DepositRequests : Deposit(p, c)
    \/ \E p \in Procs, c \in WithdrawRequests : Withdraw(p, c)
    \/ \E p \in Procs, c \in PayRequests : Pay(p, c)
    \/ \E p \in Procs : UpdateBalanceLock(p)
    \/ \E p \in Procs : UpdateBalanceCommit(p)
    \/ \E p \in Procs : Create(p)
    \/ \E p \in Procs : Commit(p)
    \/ \E p \in Procs : Return(p)
    \/ \E n \in notif, sent \in BOOLEAN : SendTransactionNotification(n, sent)
    \/ \E a \in Accounts : ReleaseLeaked(a)

Spec == Init /\ [][Next]_vars

\* the collection runs alone: ProcessPayments and the clock
SweepNext ==
    \/ ProcessPayments
    \/ NextPayment
    \/ UpdateBalanceLock(Sweeper)
    \/ UpdateBalanceCommit(Sweeper)
    \/ MarkOverdue
    \/ RecordPayment
    \/ MarkPaid
    \/ Tick

SweepSpec == SweepInit /\ [][SweepNext]_vars

\* the collection and schedule reads of users, interleaved
ReadNext ==
    \/ SweepNext
    \/ \E c \in Credits, u \in Users : GetSchedule(c, u)
    \/ GetScheduleUpdate
    \/ GetScheduleReturn

ReadSpec == SweepInit /\ [][ReadNext]_vars

\* UpdateScheduleStatus on every schedule item and clock value of the bounds
StatusInit ==
    /\ StartWith([a \in Accounts |-> InitBalance(a)])
    /\ \E s \in ProbeRows, t \in ProbeTimes :
          probe = [in |-> s, t |-> t, out |-> s, done |-> FALSE]
    /\ gen = NoGen

StatusNext == ApplyUpdateScheduleStatus

StatusSpec == StatusInit /\ [][StatusNext]_vars

\* GeneratePaymentSchedule on the credit of every request of the bounds
GenInit ==
    /\ StartWith([a \in Accounts |-> InitBalance(a)])
    /\ probe = NoProbe
    /\ gen \in {[NoGen EXCEPT !.req = r, !.start = d] :
                  r \in CreditRequests, d \in StartDates}

GenNext == ApplyGeneratePaymentSchedule

GenSpec == GenInit /\ [][GenNext]_vars

\* credit issuance, one call after the other
IssueNext ==
    \/ \E req \in IssueRequests : CreditSvcCreate(req)
    \/ AccountCreate
    \/ CreditCreate
    \/ CreateBatch
    \/ CreditUpdateBalance
    \/ CreditDepositRecord
    \/ CreditCommit
    \/ CreditReturn

IssueSpec == Init /\ [][IssueNext]_vars

\* account deletion next to deposits, card updates and a credit issuance
DeleteNext ==
    \/ \E id \in DeleteAccounts, u \in Users : AccountDelete(id, u)
    \/ DeleteLock
    \/ DeleteRow
    \/ DeleteReturn
    \/ \E c \in DeleteCards, u \in Users, on \in BOOLEAN : CardUpdate(c, u, on)
    \/ \E p \in Procs, c \in DeleteDeposits : ncalls = 0 /\ Deposit(p, c)
    \/ \E p \in Procs : UpdateBalanceLock(p)
    \/ \E p \in Procs : UpdateBalanceCommit(p)
    \/ \E p \in Procs : Create(p)
    \/ \E p \in Procs : Commit(p)
    \/ \E p \in Procs : Return(p)
    \/ \E a \in Accounts : ReleaseLeaked(a)
    \/ \E req \in DeleteIssues : creating.id = 0 /\ CreditSvcCreate(req)
    \/ AccountCreate
    \/ CreditCreate
    \/ CreateBatch
    \/ CreditUpdateBalance
    \/ CreditDepositRecord
    \/ CreditCommit
    \/ CreditReturn

DeleteSpec == Init /\ [][DeleteNext]_vars

\* every operation that inserts a Transaction: one request, one collection
\* run and one credit issuance, each started while the others are at rest
RecordInit ==
    /\ StartWith([a \in Accounts |-> SweepBalance(a)])
    /\ probe = NoProbe
    /\ gen = NoGen

AtRest ==
    /\ \A p \in AllProcs : pc[p] = "idle"
    /\ creating.pc = "idle"
    /\ notif = {}

\* the requests of an account's owner for a positive amount
RecordRequests ==
    {c \in Requests :
        /\ c.amount > 0
        /\ c.user = AccountRow(IF c.kind = "Deposit" THEN c.dst ELSE c.src).UserID}

RecordNext ==
    \/ \E p \in Procs, c \in RecordRequests : AtRest /\ ncalls = 0 /\ Transfer(p, c)
    \/ \E p \in Procs, c \in RecordRequests : AtRest /\ ncalls = 0 /\ Deposit(p, c)
    \/ \E p \in Procs, c \in RecordRequests : AtRest /\ ncalls = 0 /\ Withdraw(p, c)
    \/ \E p \in Procs, c \in RecordRequests : AtRest /\ ncalls = 0 /\ Pay(p, c)
    \/ \E p \in AllProcs : UpdateBalanceLock(p)
    \/ \E p \in AllProcs : UpdateBalanceCommit(p)
    \/ \E p \in Procs : Create(p)
    \/ \E p \in Procs : Commit(p)
    \/ \E p \in Procs : Return(p)
    \/ \E n \in notif, sent \in BOOLEAN : SendTransactionNotification(n, sent)
    \/ AtRest /\ nsweeps = 0 /\ ProcessPayments
    \/ NextPayment
    \/ MarkOverdue
    \/ RecordPayment
    \/ MarkPaid
    \/ \E req \in DeleteIssues : AtRest /\ creating.id = 0 /\ CreditSvcCreate(req)
    \/ AccountCreate
    \/ CreditCreate
    \/ CreateBatch
    \/ CreditUpdateBalance
    \/ CreditDepositRecord
    \/ CreditCommit
    \/ CreditReturn

RecordSpec == RecordInit /\ [][RecordNext]_vars

InWrite(p) == pc[p] \in {"debit_write", "credit_write"}
InLock(p)  == pc[p] \in {"debit_lock", "credit_lock"}
Returned(p) == pc[p] = "ret"
Failed(p)   == Returned(p) /\ res[p].err # ""

\* ------------------------------------------------------------------ C1
\* C1: every committed balance is >= 0 in every reachable state, and a call
\* whose UpdateBalance was rejected with "insufficient funds" has changed no
\* balance and inserted no record.
C1_BalanceNeverNegative ==
    /\ \A a \in Accounts : balance[a] >= 0
    /\ \A p \in Procs :
          res[p].cause = "insufficient funds" => eff[p] = ZeroEff /\ nrec[p] = 0

\* an UpdateBalance call was rejected under the lock, after the handler's
\* own balance check had passed
C1_Witness ==
    \E p \in Procs : Returned(p) /\ res[p].cause = "insufficient funds"

\* ------------------------------------------------------------------ C2
\* C2: a Transfer that returned because the credit of the destination failed
\* has left no committed change on its source account and no record.
C2_TransferRollsBackDebit ==
    \A p \in Procs :
        /\ call[p].kind = "Transfer"
        /\ Returned(p)
        /\ res[p].err = "failed to update destination account balance"
        => eff[p][call[p].src] = 0 /\ nrec[p] = 0

\* ------------------------------------------------------------------ C3
\* C3: in no committed state has a Transfer debited its source without
\* having credited its destination and inserted its record: the three
\* become visible together.
C3_TransferAtomicVisibility ==
    \A p \in Procs :
        call[p].kind = "Transfer" =>
            \/ eff[p] = ZeroEff /\ nrec[p] = 0
            \/ /\ eff[p][call[p].src] = 0 - call[p].amount
               /\ eff[p][call[p].dst] = call[p].amount
               /\ nrec[p] = 1

\* ------------------------------------------------------------------ C4
\* C4: every committed balance equals the initial balance plus the amounts
\* of the UpdateBalance calls that returned nil, and a call between its read
\* and its write holds the row lock and has read the committed balance.
C4_NoLostUpdate ==
    /\ \A a \in Accounts : balance[a] = expected[a]
    /\ \A p \in Procs :
          InWrite(p) => lock[Target(p)] = p /\ cur[p] = balance[Target(p)]

\* two calls in flight at once have both committed a change of one account
C4_Witness ==
    \E p, q \in Procs, a \in Accounts :
        p # q /\ eff[p][a] # 0 /\ eff[q][a] # 0

\* ------------------------------------------------------------------ C5
\* C5: a call waiting to lock the row of account A can take the lock
\* whenever A's row is free, whatever locks are held on other accounts.
C5_NoWaitOnOtherAccount ==
    \A p \in Procs :
        InLock(p) /\ lock[Target(p)] = Free => ENABLED Acquire(p)

\* two transfers over disjoint account pairs each hold a row lock at once
C5_Witness ==
    \E p, q \in Procs :
        /\ p # q
        /\ call[p].kind = "Transfer" /\ call[q].kind = "Transfer"
        /\ {call[p].src, call[p].dst} \cap {call[q].src, call[q].dst} = {}
        /\ InWrite(p) /\ InWrite(q)

\* ------------------------------------------------------------------ C6
\* the conditions C6 names, on the transfer c and the committed balances
C6_Rejected(c, bal) ==
    \/ AccountRow(c.src).UserID # c.user
    \/ ~AccountRow(c.src).IsActive
    \/ ~AccountRow(c.dst).IsActive
    \/ bal[c.src] < c.amount
    \/ AccountRow(c.src).Currency # AccountRow(c.dst).Currency

\* C6: a Transfer with a source the caller does not own, an inactive source
\* or destination, a source balance below the amount or differing
\* currencies returns an error in its first step, with no lock taken, no
\* balance changed and no record inserted.
C6_PrecheckAbortsBeforeMutation ==
    [][\A p \in Procs :
          /\ pc[p] = "idle"
          /\ pc'[p] # "idle"
          /\ call'[p].kind = "Transfer"
          /\ C6_Rejected(call'[p], balance)
          => /\ pc'[p] = "ret"
             /\ res'[p].err # ""
             /\ res'[p].err # "failed to begin transaction"
             /\ balance' = balance
             /\ txns' = txns
             /\ lock' = lock]_vars

\* one transfer rejected for the currencies, another for the ownership
C6_Witness ==
    \E p, q \in Procs :
        /\ call[p].kind = "Transfer" /\ Returned(p)
        /\ res[p].err = "currency mismatch between accounts"
        /\ call[q].kind = "Transfer" /\ Returned(q)
        /\ res[q].err = "access denied: source account belongs to another user"

\* ------------------------------------------------------------------ C7
\* C7: a Transfer that returned nil has inserted exactly one record, of
\* type TRANSFER and status COMPLETED, with its amount and both accounts;
\* a Transfer that returned an error has inserted none.
C7_OneRecordIffSuccess ==
    \A p \in Procs :
        call[p].kind = "Transfer" /\ Returned(p) =>
            IF res[p] = Ok
            THEN /\ nrec[p] = 1
                 /\ tid[p] \in DOMAIN txns
                 /\ txns[tid[p]].TransactionType = "TRANSFER"
                 /\ txns[tid[p]].Status = "COMPLETED"
                 /\ txns[tid[p]].Amount = call[p].amount
                 /\ txns[tid[p]].SourceAccountID = call[p].src
                 /\ txns[tid[p]].DestinationAccountID = call[p].dst
            ELSE nrec[p] = 0

\* ------------------------------------------------------------------ C8
\* C8: a Deposit or Withdraw that returned an error has left no committed
\* balance change and no record.
C8_DepositWithdrawFailAtomically ==
    \A p \in Procs :
        call[p].kind \in {"Deposit", "Withdraw"} /\ Failed(p)
        => eff[p] = ZeroEff /\ nrec[p] = 0

\* ------------------------------------------------------------------ C9
\* the transaction ids notifications were started for
Notified == notif \cup {m[1] : m \in mailed}

\* C9: a notification exists only for a record whose call has passed its
\* Commit with nil, so a call still holding that id has returned nil with
\* its balance changes committed; and the step in which a notification
\* finishes, sent or failed, changes no balance, record or result.
C9_NotifyAfterCommitOnly ==
    /\ [](\A n \in Notified :
            /\ n \in DOMAIN txns
            /\ txns[n].Status = "COMPLETED"
            /\ \A p \in Procs : tid[p] = n =>
                  /\ Returned(p) /\ res[p] = Ok
                  /\ call[p].kind = "Transfer" =>
                        /\ eff[p][call[p].src] = 0 - call[p].amount
                        /\ eff[p][call[p].dst] = call[p].amount)
    /\ [][mailed' # mailed =>
            /\ balance' = balance
            /\ txns' = txns
            /\ res' = res
            /\ tid' = tid
            /\ pc' = pc]_vars

\* a transfer's notification has failed while its call stands returned nil
C9_Witness ==
    \E p \in Procs :
        /\ call[p].kind = "Transfer"
        /\ Returned(p) /\ res[p] = Ok
        /\ <<tid[p], FALSE>> \in mailed

\* ----------------------------------------------------------------- C10
\* C10: once an installment is persisted PAID, no step of a later run
\* changes its row, debits its account for it or inserts a record for it,
\* and it has been written PAID exactly once.
C10_SweepIdempotent ==
    /\ [](\A i \in Insts : schedules[i].Status = "PAID" => hist[i].paid = 1)
    /\ [][\A i \in Insts :
            schedules[i].Status = "PAID" =>
                schedules'[i] = schedules[i] /\ hist'[i] = hist[i]]_vars

\* installment 1 was collected in one attempt by a run at its due date,
\* and a later run, which collected installment 2, has left it as it was
C10_Witness ==
    /\ nsweeps = 2
    /\ schedules[1].Status = "PAID" /\ ~schedules[1].IsOverdue
    /\ schedules[2].Status = "PAID"
    /\ hist[1] = [debits |-> 1, records |-> 1, paid |-> 1]

\* ----------------------------------------------------------------- C11
\* C11: over every sequence of sweeps, including sweeps in which the record
\* insert, the status update or the commit fails after the debit, the account
\* is debited at most once for an installment and at most one PAYMENT record
\* exists for it.
C11_AtMostOneCollection ==
    \A i \in Insts : hist[i].debits <= 1 /\ hist[i].records <= 1

\* ----------------------------------------------------------------- C12
\* C12: when the sweep has found the balance of the account below the total
\* due of a due pending installment, then after its failure branch the
\* installment is persisted OVERDUE with the overdue flag set and a penalty
\* of 10% of its total (a non-zero penalty is kept), the credit is OVERDUE,
\* no balance has changed and no record was inserted; the penalty of an
\* OVERDUE installment is not applied again.
C12_InsufficientFundsMarksOverdue ==
    [][/\ (/\ pc[Sweeper] = "sw_failed"
           /\ res[Sweeper].cause = "insufficient funds"
           /\ pc'[Sweeper] # "sw_failed")
          => /\ schedules'[pay.ID].Status = "OVERDUE"
             /\ schedules'[pay.ID].IsOverdue
             /\ schedules'[pay.ID].PenaltyAmount =
                   (IF pay.PenaltyAmount # 0 THEN pay.PenaltyAmount
                    ELSE TenPercent(pay.TotalAmount))
             /\ creditStatus'[pay.CreditID] = "OVERDUE"
             /\ balance' = balance
             /\ balance = expected
             /\ txns' = txns
       /\ \A i \in Insts :
             schedules[i].Status = "OVERDUE" => schedules'[i] = schedules[i]]_vars

\* ----------------------------------------------------------------- C13
\* C13: when the sweep processes a due pending installment whose account
\* holds at least the total due and no storage step fails, the debit takes
\* exactly the total due (the installment total plus the penalty of an
\* overdue one) from that account and from no other, exactly one record of
\* type PAYMENT and status COMPLETED with the account as source and the
\* total due as amount is inserted, and the installment is persisted PAID.
C13_SuccessfulCollection ==
    /\ [](pc[Sweeper] \in {"debit_lock", "debit_write", "sw_record", "sw_paid"}
            => total = pay.TotalAmount
                       + (IF pay.IsOverdue THEN pay.PenaltyAmount ELSE 0))
    /\ [][/\ (pc[Sweeper] = "debit_write" /\ cur[Sweeper] >= total)
             => res'[Sweeper].cause # "insufficient funds"
          /\ (pc[Sweeper] = "debit_write" /\ pc'[Sweeper] = "sw_record")
             => /\ balance' = [balance EXCEPT ![SweepAccount] = @ - total]
                /\ txns' = txns
                /\ schedules' = schedules
          /\ (pc[Sweeper] = "sw_record" /\ pc'[Sweeper] = "sw_paid")
             => /\ Len(txns') = Len(txns) + 1
                /\ SubSeq(txns', 1, Len(txns)) = txns
                /\ txns'[Len(txns')].TransactionType = "PAYMENT"
                /\ txns'[Len(txns')].Status = "COMPLETED"
                /\ txns'[Len(txns')].SourceAccountID = SweepAccount
                /\ txns'[Len(txns')].Amount = total
                /\ balance' = balance
                /\ schedules' = schedules
          /\ (pc[Sweeper] = "sw_paid" /\ schedules' # schedules)
             => /\ schedules'[pay.ID].Status = "PAID"
                /\ \A i \in Insts \ {pay.ID} : schedules'[i] = schedules[i]
                /\ balance' = balance
                /\ txns' = txns]_vars

\* installment 1 collected in full by a run in which nothing failed
C13_Witness ==
    /\ pc[Sweeper] = "sw_next"
    /\ schedules[1].Status = "PAID"
    /\ hist[1] = [debits |-> 1, records |-> 1, paid |-> 1]
    /\ balance[1] = SweepBalance(1) - schedules[1].TotalAmount
    /\ Len(txns) = 1
    /\ txns[1].Amount = schedules[1].TotalAmount

\* ----------------------------------------------------------------- C14
\* C14: within one sweep the failure of an installment does not keep the
\* remaining fetched installments from being attempted: whenever the sweep
\* is about to debit the account of an installment whose balance covers the
\* total due, the debit can proceed (no request runs beside the sweep here,
\* so nothing but the sweep itself can hold the row).
C14_FailuresAreIndependent ==
    (pc[Sweeper] = "debit_lock" /\ balance[SweepAccount] >= total)
        => ENABLED Acquire(Sweeper)

\* ----------------------------------------------------------------- C15
\* C15: in every interleaving of the sweep with schedule reads, an
\* installment persisted as OVERDUE is never changed to PAID or back to
\* PENDING.
C15_OverdueIsTerminal ==
    [][\A i \in Insts :
          schedules[i].Status = "OVERDUE" => schedules'[i].Status = "OVERDUE"]_vars

\* ----------------------------------------------------------------- C16
\* C16: UpdateScheduleStatus applied to a pending installment whose due date
\* has passed leaves the penalty as it was (0) when the number of whole days
\* late is 0 or 1 and sets it to 10% of the total, rounded to minor units,
\* when it is 2 or more; an installment that is not pending or not yet due
\* is returned unchanged.
C16_PenaltyAfterGraceDay ==
    probe.done =>
        LET s == probe.in
            o == probe.out
            due == s.Status = "PENDING" /\ probe.t > s.PaymentDate
            daysLate == (probe.t - s.PaymentDate) \div TicksPerDay
        IN /\ (due /\ daysLate <= 1) => o.PenaltyAmount = s.PenaltyAmount
           /\ (due /\ daysLate >= 2)
                 => o.PenaltyAmount = (s.TotalAmount + 5) \div 10
           /\ ~due => o = s

\* a pending installment two days late: the penalty of 15 is 2 (1.5 rounded)
C16_Witness ==
    /\ probe.done
    /\ probe.in.Status = "PENDING" /\ probe.in.PenaltyAmount = 0
    /\ probe.in.TotalAmount = 15
    /\ probe.t - probe.in.PaymentDate = 2 * TicksPerDay
    /\ probe.out.PenaltyAmount = 2

\* ----------------------------------------------------------------- C17
\* C17: when UpdateScheduleStatus flips a pending installment to OVERDUE
\* while it is at most one day late, the flag IsOverdue stays false.
C17_FlagAfterGraceDay ==
    (/\ probe.done
     /\ probe.in.Status = "PENDING" /\ ~probe.in.IsOverdue
     /\ probe.out.Status = "OVERDUE"
     /\ (probe.t - probe.in.PaymentDate) \div TicksPerDay <= 1)
        => ~probe.out.IsOverdue

\* ----------------------------------------------------------------- C18
\* C18: when neither the sweep nor a schedule read is in progress, a credit
\* with an installment persisted as OVERDUE is itself OVERDUE, and no step
\* takes a credit out of status OVERDUE.
C18_CreditFollowsInstallment ==
    /\ []((pc[Sweeper] = "idle" /\ gs.pc = "idle")
            => \A i \in Insts :
                  schedules[i].Status = "OVERDUE"
                      => creditStatus[schedules[i].CreditID] = "OVERDUE")
    /\ [][\A c \in Credits :
             creditStatus[c] = "OVERDUE" => creditStatus'[c] = "OVERDUE"]_vars

\* ----------------------------------------------------------------- C20
\* C20: for the credit of every valid request, GeneratePaymentSchedule
\* returns termMonths installments whose principal components, each rounded
\* to cents, sum to the credit's principal within one cent.
RECURSIVE SumPrincipal(_)
SumPrincipal(schedule) ==
    IF schedule = << >> THEN 0
    ELSE Head(schedule).PrincipalAmount + SumPrincipal(Tail(schedule))

C20_PrincipalSumsWithinOneCent ==
    gen.done =>
        /\ Len(gen.schedule) = gen.req.TermMonths
        /\ SumPrincipal(gen.schedule) - gen.req.Amount \in {-1, 0, 1}

\* ----------------------------------------------------------------- C19
\* C19: after CreditSvc.Create has returned, with success or with an error
\* of any step, the credit row exists if and only if its complete schedule
\* of termMonths installments exists, and a failed Create has left no
\* account, credit, installment, balance change or record behind.
C19_IssuanceAllOrNothing ==
    creating.pc = "cr_ret" =>
        LET r == issued[creating.id]
        IN /\ r.credit => r.installments = creating.req.TermMonths
           /\ r.installments # 0 => r.credit
           /\ creating.err # "" => r = NoRows

\* ----------------------------------------------------------------- C21
\* C21: GeneratePaymentSchedule returns exactly termMonths installments, all
\* PENDING with the overdue flag false, penalty 0 and a principal component
\* >= 0; the first is due on the credit's start date and each next one
\* exactly one calendar month after the previous (the same day of the
\* following month, or that month's last day if it has no such day), so the
\* due dates are strictly ascending.
C21_ScheduleShape ==
    gen.done =>
        /\ Len(gen.schedule) = gen.req.TermMonths
        /\ \A k \in DOMAIN gen.schedule :
              /\ gen.schedule[k].Status = "PENDING"
              /\ ~gen.schedule[k].IsOverdue
              /\ gen.schedule[k].PenaltyAmount = 0
              /\ gen.schedule[k].PrincipalAmount >= 0
        /\ gen.schedule[1].PaymentDate = gen.start
        /\ \A k \in 2 .. Len(gen.schedule) :
              LET prev == gen.schedule[k - 1].PaymentDate
                  this == gen.schedule[k].PaymentDate
                  days == IF (this.month % 12) + 1 = 3 THEN 28
                          ELSE IF (this.month % 12) + 1 \in {5, 7, 10, 12} THEN 30
                          ELSE 31
              IN /\ this.month = prev.month + 1
                 /\ this.day = (IF prev.day <= days THEN prev.day ELSE days)

\* ----------------------------------------------------------------- C22
\* C22: no step of the collection run or of a schedule read changes an
\* existing installment's credit reference, due date, principal component,
\* interest component or total; only its status, overdue flag and penalty
\* amount can change.
C22_InstallmentFrame ==
    [][\A i \in Insts :
          /\ schedules'[i].ID = schedules[i].ID
          /\ schedules'[i].CreditID = schedules[i].CreditID
          /\ schedules'[i].PaymentDate = schedules[i].PaymentDate
          /\ schedules'[i].PrincipalAmount = schedules[i].PrincipalAmount
          /\ schedules'[i].InterestAmount = schedules[i].InterestAmount
          /\ schedules'[i].TotalAmount = schedules[i].TotalAmount]_vars

\* a collection run has persisted one installment as PAID and an update has
\* persisted another one as OVERDUE with a penalty
C22_Witness ==
    /\ \E i \in Insts : schedules[i].Status = "PAID"
    /\ \E i \in Insts : /\ schedules[i].Status = "OVERDUE"
                        /\ schedules[i].IsOverdue
                        /\ schedules[i].PenaltyAmount > 0
    /\ gs.calls > 0

\* ----------------------------------------------------------------- C23
\* C23: no step removes an account whose balance is greater than 0, that
\* has an active card, or that a credit references, and a Delete that
\* returns while the account exists returns an error; deposits, card
\* updates and a credit issuance run concurrently with the delete.
C23_DeleteKeepsAccountsInUse ==
    /\ [](del.pc = "del_ret" /\ Exists(del.id) => del.err # "")
    /\ [][\A a \in AllAccounts :
             (Exists(a) /\ ~Exists(a)')
             => /\ BalanceOf(a) = 0
                /\ ActiveCards(a) = {}
                /\ ~CreditRef(a)]_vars

\* one Delete has removed an account, and another one, whose card check had
\* passed, was refused by the DELETE statement after the card was activated
C23_Witness ==
    /\ \E a \in Accounts : ~Exists(a)
    /\ del.pc = "del_ret"
    /\ del.err = "failed to delete account"
    /\ ActiveCards(del.id) # {}

\* ----------------------------------------------------------------- C24
\* C24: the amount a collection run debits for an installment is its total
\* plus its penalty if the overdue flag is set after UpdateScheduleStatus,
\* and its total alone otherwise, and the PAYMENT record inserted for it
\* carries the amount that was debited.
C24_DebitedAmount ==
    [][/\ (pc[Sweeper] = "debit_write" /\ pc'[Sweeper] = "sw_record")
          => /\ balance[SweepAccount] - balance'[SweepAccount]
                   = IF pay.IsOverdue THEN pay.TotalAmount + pay.PenaltyAmount
                                      ELSE pay.TotalAmount
             /\ total' = balance[SweepAccount] - balance'[SweepAccount]
             /\ pay' = pay
       /\ (pc[Sweeper] = "sw_record" /\ pc'[Sweeper] = "sw_paid")
          => /\ txns'[Len(txns')].TransactionType = "PAYMENT"
             /\ txns'[Len(txns')].Amount = total
             /\ pay' = pay]_vars

\* an installment more than a day late was collected with its penalty, and
\* the record of the collection carries total plus penalty
C24_Witness ==
    /\ pc[Sweeper] = "sw_paid"
    /\ pay.IsOverdue
    /\ pay.PenaltyAmount > 0
    /\ txns[Len(txns)].Amount = pay.TotalAmount + pay.PenaltyAmount
    /\ \E i \in Insts : /\ schedules[i].Status = "PAID"
                        /\ ~schedules[i].IsOverdue

\* ----------------------------------------------------------------- C25
\* C25: every call of UpdateBalance ends with its transaction committed or
\* rolled back, so a row of accounts is locked only by a call that is still
\* between its SELECT ... FOR UPDATE and its return, never by a finished one.
C25_LockEndsWithCall ==
    \A a \in Accounts :
        \/ lock[a] = Free
        \/ /\ lock[a] \in AllProcs
           /\ InWrite(lock[a])
           /\ Target(lock[a]) = a

\* ----------------------------------------------------------------- C26
\* C26: a collection run terminates after attempting each fetched
\* installment once in ascending due-date order: the installments still to
\* visit are distinct, sorted by due date and not due before the one being
\* processed, and no statement of the run waits for ever, i.e. whenever the
\* run is about to lock the row of an account, no finished call holds it
\* (nothing runs beside the sweep here).
C26_SweepTerminates ==
    /\ \A j, k \in DOMAIN queue :
          j < k => /\ queue[j].ID # queue[k].ID
                   /\ queue[j].PaymentDate <= queue[k].PaymentDate
    /\ \A k \in DOMAIN queue :
          pay # NoPay => pay.ID # queue[k].ID /\ pay.PaymentDate <= queue[k].PaymentDate
    /\ pc[Sweeper] = "debit_lock" => lock[SweepAccount] = Free

\* ----------------------------------------------------------------- C27
\* calls p and q are transfers in opposite directions between two accounts
C27_Opposite(p, q) ==
    /\ p # q
    /\ call[p].kind = "Transfer" /\ call[q].kind = "Transfer"
    /\ call[p].src # call[p].dst
    /\ call[p].src = call[q].dst /\ call[p].dst = call[q].src

\* what a returned transfer c with result r adds to the balance of account a
C27_Adjust(c, r, a) ==
    IF r # Ok THEN 0
    ELSE (IF a = c.dst THEN c.amount ELSE 0) - (IF a = c.src THEN c.amount ELSE 0)

\* C27: two concurrent transfers in opposite directions between the same two
\* accounts never wait for each other's row lock, and once both have
\* returned (no other call having run) every balance is the initial balance
\* adjusted by exactly the transfers that returned nil.
C27_OppositeTransfers ==
    \A p, q \in Procs :
        C27_Opposite(p, q) =>
            /\ ~(/\ InLock(p) /\ lock[Target(p)] = q
                 /\ InLock(q) /\ lock[Target(q)] = p)
            /\ (Returned(p) /\ Returned(q) /\ ncalls = 2)
               => \A a \in Accounts :
                     balance[a] = InitBalance(a) + C27_Adjust(call[p], res[p], a)
                                                 + C27_Adjust(call[q], res[q], a)

\* ----------------------------------------------------------------- C28
\* C28: once a collection run has persisted an installment as PAID, no step
\* of a concurrent schedule read writes another status to it, and a
\* schedule read escalates a credit to OVERDUE only on account of an
\* installment that was never persisted PAID.
C28_PaidIsTerminal ==
    [][/\ \A i \in Insts :
             schedules[i].Status = "PAID" => schedules'[i].Status = "PAID"
       /\ \A c \in Credits :
             (gs.pc = "gs_update" /\ gs'.pc = "idle"
                /\ creditStatus'[c] # creditStatus[c])
             => \E i \in Insts : /\ schedules[i].CreditID = c
                                 /\ schedules[i].Status = "OVERDUE"
                                 /\ hist[i].paid = 0]_vars

\* ----------------------------------------------------------------- C29
\* C29: an installment that is due and whose account holds the amount due
\* is eventually PAID by the collection runs, whatever schedule reads
\* happen before the next run.  Only a collection run that has fetched an
\* installment persists it PAID, and the fetch takes PENDING rows only, so
\* the installment must never be left persisted OVERDUE outside a running
\* collection while its account holds the amount due.
C29_FundedInstallmentIsCollected ==
    \A i \in Insts :
        (/\ schedules[i].Status = "OVERDUE"
         /\ pay.ID # i
         /\ \A k \in DOMAIN queue : queue[k].ID # i)
        => balance[CreditRow(schedules[i].CreditID).AccountID]
               < TotalDue(schedules[i])

\* ----------------------------------------------------------------- C30
\* C30: the record a Deposit or a Withdraw inserts is persisted with status
\* PENDING, the records a Transfer, a Pay, a credit issuance and a
\* collection run insert are persisted with status COMPLETED, and no step
\* changes a record that has been inserted.
C30_RecordStatus ==
    [][/\ Len(txns') >= Len(txns)
       /\ SubSeq(txns', 1, Len(txns)) = txns
       /\ \A p \in Procs :
             (pc[p] = "record" /\ pc'[p] = "commit")
             => /\ Len(txns') = Len(txns) + 1
                /\ txns'[Len(txns')].Status =
                      IF call[p].kind \in {"Deposit", "Withdraw"}
                      THEN "PENDING" ELSE "COMPLETED"
       /\ (pc[Sweeper] = "sw_record" /\ pc'[Sweeper] = "sw_paid")
          => /\ Len(txns') = Len(txns) + 1
             /\ txns'[Len(txns')].Status = "COMPLETED"
       /\ (creating.pc = "cr_record" /\ creating'.pc = "cr_commit")
          => /\ Len(txns') = Len(txns) + 1
             /\ txns'[Len(txns')].Status = "COMPLETED"]_vars

\* a deposit that returned nil has left a PENDING record, and a collection
\* run and an issuance have each left a COMPLETED one
C30_Witness ==
    /\ \E i \in DOMAIN txns : /\ txns[i].TransactionType = "DEPOSIT"
                              /\ txns[i].DestinationAccountID \in Accounts
                              /\ txns[i].Status = "PENDING"
    /\ \E i \in DOMAIN txns : /\ txns[i].TransactionType = "PAYMENT"
                              /\ txns[i].CardID = 0
                              /\ txns[i].Status = "COMPLETED"
    /\ \E i \in DOMAIN txns : /\ txns[i].TransactionType = "DEPOSIT"
                              /\ txns[i].DestinationAccountID \notin Accounts
                              /\ txns[i].Status = "COMPLETED"
    /\ AtRest

TypeOK ==
    /\ balance \in [Accounts -> Int]
    /\ \A a \in Accounts : lock[a] \in AllProcs \cup {Free, LeakedReq, LeakedSweep, Deleter}
    /\ \A p \in AllProcs : pc[p] \in {"idle", "debit_lock", "debit_write",
            "credit_lock", "credit_write", "record", "commit", "ret",
            "sw_next", "sw_failed", "sw_record", "sw_paid"}
    /\ gs.pc \in {"idle", "gs_update"}
    /\ creating.pc \in {"idle", "cr_account", "cr_credit", "cr_batch",
                         "cr_balance", "cr_record", "cr_commit", "cr_ret"}
    /\ probe.done \in BOOLEAN
    /\ gen.done \in BOOLEAN

====
